---- MODULE Spec2Model ----
(***************************************************************************)
(* A model of src/src/lib.rs (mod vdb): the VDB selection engine           *)
(* (select_database, set_primary_engine) and the collection resolver       *)
(* (VDBCollection::resolve).                                               *)
(*                                                                         *)
(* Encoding.                                                               *)
(*   String            a sequence of one-character strings                 *)
(*   Option<T>         <<>> for None, <<v>> for Some(v)                    *)
(*   IndexMap<K,V>     a sequence of [key, value] records with unique keys *)
(*                     (insertion order is the order of the sequence)      *)
(*   VDBKind           kind \in {"Combinator","LoadBalance","FailOver"};   *)
(*                     the FailOver payload is the field primary (0 and    *)
(*                     never read for the other two kinds)                 *)
(*   Result<T,String>  [tag, val, err]: tag "Ok" carries val, tag "Err"    *)
(*                     carries err; tag "Panic" is an unwinding panic      *)
(*   an error String   [msg, args]: the format string and the formatted    *)
(*                     arguments                                           *)
(***************************************************************************)
EXTENDS Integers, Sequences, FiniteSets, TLC

\* ------------------------------------------------------------------ bounds
\* set_primary_engine arguments range over 0..MaxEngine
MaxEngine == 3
\* rand::random::<usize>() draws range over 0..MaxRand
MaxRand == 2
\* the name list handed to resolve has at most MaxNameLen characters
MaxNameLen == 3

\* ----------------------------------------------------------------- strings
Comma == ","

Space == " "

Quote == "\""

S_a == <<"a">>

S_b == <<"b">>

S_foo == <<"f", "o", "o">>

S_bar == <<"b", "a", "r">>

S_x == <<"x">>

S_y == <<"y">>

\* the characters a name list is made of: the characters of the VDB names and
\* the separator (a token such as "ab" or the empty token names no VDB)
NameAlphabet == {"a", "b", Comma}

RECURSIVE StringsUpTo(_)
StringsUpTo(n) ==
    IF n = 0 THEN {<<>>}
    ELSE LET shorter == StringsUpTo(n - 1)
         IN  shorter \cup {Append(s, c) : s \in shorter, c \in NameAlphabet}

NameLists == StringsUpTo(MaxNameLen)

\* format!("{}", n) for a usize: the decimal digits of n
RECURSIVE to_string(_)
to_string(n) ==
    LET digit(d) == <<"0", "1", "2", "3", "4", "5", "6", "7", "8", "9">>[d + 1]
    IN  IF n < 10 THEN <<digit(n)>>
        ELSE Append(to_string(n \div 10), digit(n % 10))

\* str::split(sep): the pieces between the separators, empty pieces included;
\* the empty string splits into one empty piece
RECURSIVE split_from(_, _, _, _, _)
split_from(s, sep, i, cur, acc) ==
    IF i > Len(s) THEN Append(acc, cur)
    ELSE IF s[i] = sep THEN split_from(s, sep, i + 1, <<>>, Append(acc, cur))
    ELSE split_from(s, sep, i + 1, Append(cur, s[i]), acc)

split(s, sep) == split_from(s, sep, 1, <<>>, <<>>)

\* [String]::join(sep)
RECURSIVE join(_, _)
join(strs, sep) ==
    IF Len(strs) = 0 THEN <<>>
    ELSE IF Len(strs) = 1 THEN strs[1]
    ELSE strs[1] \o <<sep>> \o join(Tail(strs), sep)

\* format!("\"{}\"", x)
quoted(x) == <<Quote>> \o x \o <<Quote>>

\* ----------------------------------------------------------------- results
NoErr == [msg |-> "", args |-> <<>>]

Ok(v) == [tag |-> "Ok", val |-> v, err |-> NoErr]

Err(m, a) == [tag |-> "Err", val |-> <<>>, err |-> [msg |-> m, args |-> a]]

Panic(m, a) == [tag |-> "Panic", val |-> <<>>, err |-> [msg |-> m, args |-> a]]

ResolvedEngine(e, d) == [engine |-> e, databasematch |-> d]

\* ---------------------------------------------------------------- IndexMap
\* a lookup that stops at the first entry
IndexMapGet_first_only(m, k) ==
    IF Len(m) > 0 /\ m[1].key = k THEN <<m[1].value>> ELSE <<>>

\* IndexMap::get / get_mut: the value stored under k
IndexMapGet(m, k) ==
    IF \E i \in 1..Len(m) : m[i].key = k
    THEN LET i == CHOOSE i \in 1..Len(m) : m[i].key = k IN <<m[i].value>>
    ELSE <<>>

\* IndexMap::get_index: the entry at a zero-based position
IndexMapGetIndex(m, i) ==
    IF i < Len(m) THEN <<m[i + 1]>> ELSE <<>>

\* IndexMap::insert: replaces the value in place and returns the old one when
\* the key is present, appends and returns None otherwise
IndexMapInsert(m, k, v) ==
    LET at == {i \in 1..Len(m) : m[i].key = k}
    IN  IF at = {}
        THEN [map |-> Append(m, [key |-> k, value |-> v]), old |-> <<>>]
        ELSE LET i == CHOOSE i \in at : TRUE
             IN  [map |-> [m EXCEPT ![i] = [key |-> k, value |-> v]],
                  old |-> <<m[i].value>>]

\* a push that puts the string in front
IndexMapPush_front(m, k, s) ==
    [i \in 1..Len(m) |->
        IF m[i].key = k THEN [key |-> k, value |-> <<s>> \o m[i].value]
        ELSE m[i]]

\* entry.push(s) on the value get_mut found
IndexMapPush(m, k, s) ==
    [i \in 1..Len(m) |->
        IF m[i].key = k THEN [key |-> k, value |-> Append(m[i].value, s)]
        ELSE m[i]]

\* --------------------------------------------------------------------- VDB
VDB(n, k, p, m) == [name |-> n, kind |-> k, primary |-> p, mapping |-> m]

select_single_failover(vdb, primary_engine) ==
    LET got == IndexMapGet(vdb.mapping, primary_engine)
    IN  IF got # <<>>
        THEN Ok(<<ResolvedEngine(primary_engine, got[1])>>)
        ELSE Err("PrimaryEngine {} is not a configured engine of VDB {}",
                 <<to_string(primary_engine), vdb.name>>)

\* rnd is the value rand::random::<usize>() returned; the remainder by a zero
\* length panics
select_single_loadbalance(vdb, rnd) ==
    IF Len(vdb.mapping) = 0
    THEN Panic("attempt to calculate the remainder with a divisor of zero", <<>>)
    ELSE LET selected == IndexMapGetIndex(vdb.mapping, rnd % Len(vdb.mapping))
         IN  IF selected # <<>>
             THEN Ok(<<ResolvedEngine(selected[1].key, selected[1].value)>>)
             ELSE Err("LoadBalance somehow didn't select an engine for VDB {}!",
                      <<vdb.name>>)

\* a FailOver branch that reports success without storing the primary
set_primary_engine_no_store(vdb, primary_engine) ==
    IF vdb.kind = "Combinator"
    THEN [vdb |-> vdb,
          res |-> Err("Tried to set a primary engine on a combinator", <<>>)]
    ELSE IF vdb.kind = "LoadBalance"
    THEN [vdb |-> vdb,
          res |-> Err("Tried to set a primary engine on a load balancing distributor", <<>>)]
    ELSE IF primary_engine > Len(vdb.mapping)
    THEN [vdb |-> vdb, res |-> Err("Primary engine out of range", <<>>)]
    ELSE [vdb |-> vdb, res |-> Ok(<<>>)]

\* a FailOver branch that stores the primary before it checks the range
set_primary_engine_store_first(vdb, primary_engine) ==
    IF vdb.kind = "Combinator"
    THEN [vdb |-> vdb,
          res |-> Err("Tried to set a primary engine on a combinator", <<>>)]
    ELSE IF vdb.kind = "LoadBalance"
    THEN [vdb |-> vdb,
          res |-> Err("Tried to set a primary engine on a load balancing distributor", <<>>)]
    ELSE [vdb |-> [vdb EXCEPT !.primary = primary_engine],
          res |-> IF primary_engine > Len(vdb.mapping)
                  THEN Err("Primary engine out of range", <<>>)
                  ELSE Ok(<<>>)]

\* the VDB after the call and the call's result
set_primary_engine(vdb, primary_engine) ==
    IF vdb.kind = "Combinator"
    THEN [vdb |-> vdb,
          res |-> Err("Tried to set a primary engine on a combinator", <<>>)]
    ELSE IF vdb.kind = "LoadBalance"
    THEN [vdb |-> vdb,
          res |-> Err("Tried to set a primary engine on a load balancing distributor", <<>>)]
    ELSE IF primary_engine > Len(vdb.mapping)
    THEN [vdb |-> vdb, res |-> Err("Primary engine out of range", <<>>)]
    ELSE [vdb |-> [vdb EXCEPT !.primary = primary_engine], res |-> Ok(<<>>)]

\* a Combinator branch that walks the mapping backwards
select_database_reversed(vdb, rnd) ==
    IF vdb.kind = "Combinator"
    THEN Ok([i \in 1..Len(vdb.mapping) |->
                ResolvedEngine(vdb.mapping[Len(vdb.mapping) + 1 - i].key,
                               vdb.mapping[Len(vdb.mapping) + 1 - i].value)])
    ELSE IF vdb.kind = "LoadBalance"
    THEN select_single_loadbalance(vdb, rnd)
    ELSE select_single_failover(vdb, vdb.primary)

select_database(vdb, rnd) ==
    IF vdb.kind = "Combinator"
    THEN Ok([i \in 1..Len(vdb.mapping) |->
                ResolvedEngine(vdb.mapping[i].key, vdb.mapping[i].value)])
    ELSE IF vdb.kind = "LoadBalance"
    THEN select_single_loadbalance(vdb, rnd)
    ELSE select_single_failover(vdb, vdb.primary)

\* ----------------------------------------------------------- VDBCollection
\* the loop over one selection's engines: get_mut, then push or insert; tag
\* "Scary" is the branch where insert found an entry get_mut did not
RECURSIVE aggregate(_, _, _)
aggregate(blah, result, j) ==
    IF j > Len(result) THEN [tag |-> "Ok", blah |-> blah]
    ELSE LET resolved_engine == result[j]
         IN  IF IndexMapGet(blah, resolved_engine.engine) # <<>>
             THEN aggregate(IndexMapPush(blah, resolved_engine.engine,
                                         resolved_engine.databasematch),
                            result, j + 1)
             ELSE LET ins == IndexMapInsert(blah, resolved_engine.engine,
                                            <<resolved_engine.databasematch>>)
                  IN  IF ins.old # <<>> THEN [tag |-> "Scary", blah |-> blah]
                      ELSE aggregate(ins.map, result, j + 1)

\* the loop over the tokens from token i on; rnds[i] is the random value a
\* LoadBalance selection for token i draws; selected records, in call order,
\* every select_database call made and what it returned
RECURSIVE resolve_loop(_, _, _, _, _, _)
resolve_loop(coll, tokens, rnds, i, blah, selected) ==
    IF i > Len(tokens)
    THEN [out |-> Ok([k \in 1..Len(blah) |->
                        ResolvedEngine(blah[k].key, join(blah[k].value, Comma))]),
          selected |-> selected]
    ELSE LET vdb_name == tokens[i]
         IN  IF vdb_name \notin DOMAIN coll
             THEN [out |-> Panic("VDB collection does not have entry for database name {}",
                                 <<vdb_name>>),
                   selected |-> selected]
             ELSE LET sel == select_database(coll[vdb_name], rnds[i])
                      now == Append(selected, [vdb |-> vdb_name, out |-> sel])
                  IN  IF sel.tag = "Ok"
                      THEN LET agg == aggregate(blah, sel.val, 1)
                           IN  IF agg.tag = "Scary"
                               THEN [out |-> Panic("Scary", <<>>), selected |-> now]
                               ELSE resolve_loop(coll, tokens, rnds, i + 1, agg.blah, now)
                      ELSE IF sel.tag = "Err"
                      THEN [out |-> Panic(sel.err.msg, sel.err.args), selected |-> now]
                      ELSE [out |-> sel, selected |-> now]

\* a validation that lets empty tokens through
missing_vdbs_skip_empty(coll, databasematch) ==
    SelectSeq(split(databasematch, Comma),
              LAMBDA x : x # <<>> /\ x \notin DOMAIN coll)

missing_vdbs(coll, databasematch) ==
    SelectSeq(split(databasematch, Comma), LAMBDA x : x \notin DOMAIN coll)

resolve(coll, databasematch, rnds) ==
    LET missing == missing_vdbs(coll, databasematch)
    IN  IF Len(missing) > 0
        THEN [out |-> Err("VDB collection does not have entries for databases: {}",
                          <<join([i \in 1..Len(missing) |-> quoted(missing[i])], Space)>>),
              selected |-> <<>>]
        ELSE resolve_loop(coll, split(databasematch, Comma), rnds, 1, <<>>, <<>>)

\* ------------------------------------------------------------------- state
VARIABLES
    vdbs,          \* VDBCollection.vdbs: VDB name -> VDB
    result,        \* what the last call returned
    lastOp,        \* the last call: [op, target, arg]
    selected,      \* the select_database calls the last resolve made
    constructed,   \* the collection as constructed
    lastOkPrimary  \* per VDB: the argument of its last successful set_primary_engine

vars == <<vdbs, result, lastOp, selected, constructed, lastOkPrimary>>

Names == {S_a, S_b}

Entry(k, v) == [key |-> k, value |-> v]

\* the mapping of tests::setup_test_vdb
TestMapping == <<Entry(0, S_foo), Entry(1, S_bar)>>

Mappings ==
    {<<>>, TestMapping, <<Entry(0, S_x)>>, <<Entry(2, S_y), Entry(0, S_x)>>}

\* the primaries a FailOver VDB is constructed with: for every non-empty
\* mapping above, one that is a key and one that may not be
ConstructedPrimaries == {0, 2}

\* the shapes the first VDB is constructed with
Shapes ==
    {[kind |-> k, primary |-> 0, mapping |-> m] :
        k \in {"Combinator", "LoadBalance"}, m \in Mappings}
    \cup {[kind |-> "FailOver", primary |-> p, mapping |-> m] :
            p \in ConstructedPrimaries, m \in Mappings}

\* the shapes the second VDB is constructed with
ShapesB ==
    {[kind |-> "Combinator", primary |-> 0, mapping |-> <<Entry(0, S_y)>>],
     [kind |-> "LoadBalance", primary |-> 0, mapping |-> TestMapping]}

Init ==
    /\ \E sa \in Shapes, sb \in ShapesB :
          vdbs = [n \in Names |->
                    IF n = S_a THEN VDB(n, sa.kind, sa.primary, sa.mapping)
                    ELSE VDB(n, sb.kind, sb.primary, sb.mapping)]
    /\ constructed = vdbs
    /\ result = Ok(<<>>)
    /\ lastOp = [op |-> "new", target |-> <<>>, arg |-> 0]
    /\ selected = <<>>
    /\ lastOkPrimary = [n \in Names |-> <<>>]

\* a panic unwinds out of the caller: no further call is made
aborted == result.tag = "Panic"

SetPrimaryEngine(n, p) ==
    /\ ~aborted
    /\ LET r == set_primary_engine(vdbs[n], p)
       IN  /\ vdbs' = [vdbs EXCEPT ![n] = r.vdb]
           /\ result' = r.res
           /\ lastOkPrimary' = IF r.res.tag = "Ok"
                               THEN [lastOkPrimary EXCEPT ![n] = <<p>>]
                               ELSE lastOkPrimary
    /\ lastOp' = [op |-> "set_primary_engine", target |-> n, arg |-> p]
    /\ selected' = <<>>
    /\ UNCHANGED constructed

SelectDatabase(n) ==
    /\ ~aborted
    /\ \E rnd \in 0..MaxRand : result' = select_database(vdbs[n], rnd)
    /\ lastOp' = [op |-> "select_database", target |-> n, arg |-> 0]
    /\ selected' = <<>>
    /\ UNCHANGED <<vdbs, constructed, lastOkPrimary>>

\* the values rand::random draws during one resolve call, one per token; no
\* value is drawn when the name validation fails
RandomDraws(coll, databasematch) ==
    IF Len(missing_vdbs(coll, databasematch)) > 0 THEN {<<>>}
    ELSE [1..Len(split(databasematch, Comma)) -> 0..MaxRand]

Resolve(databasematch) ==
    /\ ~aborted
    /\ \E rnds \in RandomDraws(vdbs, databasematch) :
          LET r == resolve(vdbs, databasematch, rnds)
          IN  /\ result' = r.out
              /\ selected' = r.selected
    /\ lastOp' = [op |-> "resolve", target |-> databasematch, arg |-> 0]
    /\ UNCHANGED <<vdbs, constructed, lastOkPrimary>>

Next ==
    \/ \E n \in Names, p \in 0..MaxEngine : SetPrimaryEngine(n, p)
    \/ \E n \in Names : SelectDatabase(n)
    \/ \E databasematch \in NameLists : Resolve(databasematch)

Spec == Init /\ [][Next]_vars

TypeOK ==
    /\ DOMAIN vdbs = Names
    /\ result.tag \in {"Ok", "Err", "Panic"}
    /\ lastOp.op \in {"new", "set_primary_engine", "select_database", "resolve"}

\* ------------------------------------------------------------- error kinds
\* the error kinds of the specification, by the message the code returns
IsOutOfRange(r) ==
    r.tag = "Err" /\ r.err.msg = "Primary engine out of range"

IsInvalidOperation(r) ==
    /\ r.tag = "Err"
    /\ r.err.msg \in {"Tried to set a primary engine on a combinator",
                      "Tried to set a primary engine on a load balancing distributor"}

IsEngineNotConfigured(r) ==
    /\ r.tag = "Err"
    /\ r.err.msg = "PrimaryEngine {} is not a configured engine of VDB {}"

IsSelectionEmpty(r) ==
    /\ r.tag = "Err"
    /\ r.err.msg = "LoadBalance somehow didn't select an engine for VDB {}!"

IsUnknownVDB(r) ==
    /\ r.tag = "Err"
    /\ r.err.msg = "VDB collection does not have entries for databases: {}"

IsKey(vdb, k) == \E i \in 1..Len(vdb.mapping) : vdb.mapping[i].key = k

\* the comma-separated tokens of s: the maximal comma-free stretches of s,
\* as [from, to] positions (to = from - 1 for an empty token)
TokenSpans(s) ==
    {sp \in (1..Len(s) + 1) \X (0..Len(s)) :
        /\ sp[2] >= sp[1] - 1
        /\ \A k \in sp[1]..sp[2] : s[k] # Comma
        /\ (sp[1] = 1 \/ s[sp[1] - 1] = Comma)
        /\ (sp[2] = Len(s) \/ s[sp[2] + 1] = Comma)}

TokenSet(s) == {SubSeq(s, sp[1], sp[2]) : sp \in TokenSpans(s)}

\* the tokens an UnknownVDB message names: its quoted, space-separated items
NamedTokens(r) ==
    LET items == split(r.err.args[1], Space)
    IN  {SubSeq(items[i], 2, Len(items[i]) - 1) : i \in 1..Len(items)}

WellQuoted(r) ==
    LET items == split(r.err.args[1], Space)
    IN  \A i \in 1..Len(items) :
           /\ Len(items[i]) >= 2
           /\ items[i][1] = Quote
           /\ items[i][Len(items[i])] = Quote

\* the selections of one resolve call, one after the other
RECURSIVE Flatten(_)
Flatten(calls) ==
    IF Len(calls) = 0 THEN <<>>
    ELSE calls[1].out.val \o Flatten(Tail(calls))

FirstPos(flat, e) ==
    CHOOSE k \in 1..Len(flat) :
        flat[k].engine = e /\ \A l \in 1..(k - 1) : flat[l].engine # e

MatchesOf(flat, e) ==
    LET f == SelectSeq(flat, LAMBDA r : r.engine = e)
    IN  [k \in 1..Len(f) |-> f[k].databasematch]

\* the primary the specification expects a FailOver VDB to have
ExpectedPrimary(n) ==
    IF lastOkPrimary[n] = <<>> THEN constructed[n].primary
    ELSE lastOkPrimary[n][1]

\* ------------------------------------------------------------------ claims

\* C1: set_primary_engine(new_primary) on a Distributor(FailOver) VDB fails
\* with OutOfRange for every new_primary that is not a key of the mapping (a
\* value equal to the entry count included) and succeeds only for a key.
C1_SetPrimaryValidatesKeys ==
    (lastOp.op = "set_primary_engine" /\ vdbs[lastOp.target].kind = "FailOver")
    => IF IsKey(vdbs[lastOp.target], lastOp.arg)
       THEN result.tag = "Ok"
       ELSE IsOutOfRange(result)

\* C2: a FailOver VDB constructed with a primary that is a key of its mapping
\* always has a primary that is a key of its mapping, and select on it never
\* fails with EngineNotConfigured.
C2_PrimaryAlwaysKey ==
    \A n \in Names :
        (constructed[n].kind = "FailOver" /\ IsKey(constructed[n], constructed[n].primary))
        => /\ IsKey(vdbs[n], vdbs[n].primary)
           /\ ~(lastOp.op = "select_database" /\ lastOp.target = n
                /\ IsEngineNotConfigured(result))

\* C3: select on a FailOver VDB returns exactly the one entry (p, mapping[p])
\* where p is the argument of the last successful set_primary_engine call, or
\* the constructed primary if none succeeded, and fails with
\* EngineNotConfigured(p, name) exactly when p is not a key; on the test
\* mapping with FailOver(0) it returns [(0,"foo")] and after
\* set_primary_engine(1) it returns [(1,"bar")].
C3_FailOverSelect ==
    (lastOp.op = "select_database" /\ vdbs[lastOp.target].kind = "FailOver")
    => LET vdb == vdbs[lastOp.target]
           p == ExpectedPrimary(lastOp.target)
       IN  /\ IF IsKey(vdb, p)
              THEN /\ result.tag = "Ok"
                   /\ Len(result.val) = 1
                   /\ result.val[1].engine = p
                   /\ \E i \in 1..Len(vdb.mapping) :
                         /\ vdb.mapping[i].key = p
                         /\ vdb.mapping[i].value = result.val[1].databasematch
              ELSE /\ IsEngineNotConfigured(result)
                   /\ result.err.args = <<to_string(p), vdb.name>>
           /\ (vdb.mapping = TestMapping /\ p = 0)
              => result.val = <<[engine |-> 0, databasematch |-> <<"f", "o", "o">>]>>
           /\ (vdb.mapping = TestMapping /\ p = 1)
              => result.val = <<[engine |-> 1, databasematch |-> <<"b", "a", "r">>]>>

C3_Witness ==
    /\ lastOp.op = "select_database"
    /\ vdbs[lastOp.target].kind = "FailOver"
    /\ vdbs[lastOp.target].mapping = TestMapping
    /\ constructed[lastOp.target].primary = 0
    /\ lastOkPrimary[lastOp.target] = <<1>>
    /\ result.tag = "Ok"

\* C4: if any comma-separated token of the name list (an empty token
\* included) is not a key of the collection, resolve makes no select_database
\* call and returns an UnknownVDB error naming every missing token and no
\* present token.
C4_ResolveAllOrNothing ==
    (lastOp.op = "resolve" /\ \E t \in TokenSet(lastOp.target) : t \notin DOMAIN vdbs)
    => /\ selected = <<>>
       /\ IsUnknownVDB(result)
       /\ WellQuoted(result)
       /\ NamedTokens(result) = {t \in TokenSet(lastOp.target) : t \notin DOMAIN vdbs}

C4_Witness ==
    /\ lastOp.op = "resolve"
    /\ \E t \in TokenSet(lastOp.target) : t \in DOMAIN vdbs
    /\ \E t \in TokenSet(lastOp.target) : t \notin DOMAIN vdbs
    /\ IsUnknownVDB(result)
    /\ selected = <<>>

\* C5: when every name of the list is present but a named VDB's select fails,
\* resolve returns that failure as an error value; resolve never panics.
C5_ResolveNeverPanics ==
    lastOp.op = "resolve"
    => /\ result.tag # "Panic"
       /\ (\E i \in 1..Len(selected) : selected[i].out.tag # "Ok")
          => result.tag = "Err"

\* C6: a successful resolve returns exactly one ResolvedEngine per distinct
\* engine of the per-VDB selections, which are made in request-list order;
\* the engines are in the order of their first appearance in the selections,
\* and each databasematch is the comma-join of the engine's per-VDB
\* databasematch strings in that order; a = Combinator{0->"x"},
\* b = Combinator{0->"y"} gives resolve("a,b") = [(0,"x,y")].
C6_ResolveAggregation ==
    (lastOp.op = "resolve" /\ result.tag = "Ok")
    => LET tokens == split(lastOp.target, Comma)
           flat == Flatten(selected)
           out == result.val
       IN  /\ Len(selected) = Len(tokens)
           /\ \A i \in 1..Len(tokens) :
                 selected[i].vdb = tokens[i] /\ selected[i].out.tag = "Ok"
           /\ {out[i].engine : i \in 1..Len(out)} = {flat[k].engine : k \in 1..Len(flat)}
           /\ \A i, j \in 1..Len(out) :
                 i < j => /\ out[i].engine # out[j].engine
                          /\ FirstPos(flat, out[i].engine) < FirstPos(flat, out[j].engine)
           /\ \A i \in 1..Len(out) :
                 out[i].databasematch = join(MatchesOf(flat, out[i].engine), Comma)
           /\ (/\ vdbs[S_a].kind = "Combinator" /\ vdbs[S_a].mapping = <<Entry(0, S_x)>>
               /\ vdbs[S_b].kind = "Combinator" /\ vdbs[S_b].mapping = <<Entry(0, S_y)>>
               /\ lastOp.target = <<"a", ",", "b">>)
              => out = <<[engine |-> 0, databasematch |-> <<"x", ",", "y">>]>>

C6_Witness ==
    /\ lastOp.op = "resolve"
    /\ result.tag = "Ok"
    /\ lastOp.target = <<"a", ",", "b">>
    /\ vdbs[S_a].kind = "Combinator"
    /\ vdbs[S_a].mapping = <<Entry(2, S_y), Entry(0, S_x)>>
    /\ vdbs[S_b].kind = "Combinator"
    /\ result.val = <<[engine |-> 2, databasematch |-> <<"y">>],
                      [engine |-> 0, databasematch |-> <<"x", ",", "y">>]>>

\* C7: select on a LoadBalance VDB with an empty mapping fails with the
\* recoverable error SelectionEmpty; on a non-empty mapping it returns exactly
\* one ResolvedEngine that is an entry of the mapping.
C7_LoadBalanceSelect ==
    (lastOp.op = "select_database" /\ vdbs[lastOp.target].kind = "LoadBalance")
    => LET m == vdbs[lastOp.target].mapping
       IN  IF Len(m) = 0
           THEN IsSelectionEmpty(result)
           ELSE /\ result.tag = "Ok"
                /\ Len(result.val) = 1
                /\ \E i \in 1..Len(m) :
                      /\ m[i].key = result.val[1].engine
                      /\ m[i].value = result.val[1].databasematch

\* C8: set_primary_engine on a Combinator or LoadBalance VDB fails with
\* InvalidOperation for every argument, and every failing set_primary_engine
\* call leaves every VDB (name, kind, primary, mapping) unchanged.
C8_FailedSetPrimaryFrame ==
    [][lastOp'.op = "set_primary_engine"
       => /\ vdbs[lastOp'.target].kind \in {"Combinator", "LoadBalance"}
             => IsInvalidOperation(result')
          /\ result'.tag # "Ok" => vdbs' = vdbs]_vars

C8_Witness ==
    /\ lastOp.op = "set_primary_engine"
    /\ vdbs[lastOp.target].kind = "LoadBalance"
    /\ IsInvalidOperation(result)
    /\ vdbs = constructed

\* C9: select on a Combinator VDB never fails, returns one ResolvedEngine per
\* mapping entry in insertion order whatever was called before (the empty
\* list for the empty mapping, [(0,"foo"),(1,"bar")] for the test mapping)
\* and leaves the VDB unchanged.
C9_CombinatorSelect ==
    [][(lastOp'.op = "select_database" /\ vdbs[lastOp'.target].kind = "Combinator")
       => LET m == vdbs[lastOp'.target].mapping
          IN  /\ result'.tag = "Ok"
              /\ Len(result'.val) = Len(m)
              /\ \A i \in 1..Len(m) :
                    /\ result'.val[i].engine = m[i].key
                    /\ result'.val[i].databasematch = m[i].value
              /\ m = <<>> => result'.val = <<>>
              /\ m = TestMapping
                 => result'.val = <<[engine |-> 0, databasematch |-> <<"f", "o", "o">>],
                                    [engine |-> 1, databasematch |-> <<"b", "a", "r">>]>>
              /\ vdbs' = vdbs]_vars

C9_Witness ==
    /\ lastOp.op = "select_database"
    /\ vdbs[lastOp.target].kind = "Combinator"
    /\ vdbs[lastOp.target].mapping = TestMapping
    /\ result.tag = "Ok"
    /\ Len(result.val) = 2

\* C10: the aggregation-inconsistency branch of resolve is unreachable:
\* whenever the aggregation map reports an engine absent, inserting it finds
\* no entry, so the "Scary" outcome never occurs.
C10_ScaryUnreachable ==
    ~(lastOp.op = "resolve" /\ result.tag = "Panic" /\ result.err.msg = "Scary")

C10_Witness ==
    /\ lastOp.op = "resolve"
    /\ result.tag = "Ok"
    /\ Len(result.val) >= 2
    /\ \E i \in 1..Len(result.val) :
          \E k \in 1..Len(result.val[i].databasematch) :
             result.val[i].databasematch[k] = Comma

====
